---- MODULE Spec2Model ----
(***************************************************************************)
(* A model of timesheet_parser.py: the line-by-line driver                 *)
(* process_timesheet_file, the time arithmetic it uses, and the remote     *)
(* calls it makes (project list, paginated task list, event creation).     *)
(*                                                                         *)
(* Strings are tuples of one-character strings, so that lower(), strip()   *)
(* and the substring test are computed and not assumed.  A line of the     *)
(* document is a record [ind, txt]: its count of leading spaces and its    *)
(* stripped text.  The stripped text is                                    *)
(*   [t |-> "blank"]                      nothing but whitespace           *)
(*   [t |-> "date",  toks |-> <<..>>]     starts with "# date"; toks is    *)
(*                                        stripped.split()                 *)
(*   [t |-> "name",  s |-> str]           any other text that is not a     *)
(*                                        time range                       *)
(*   [t |-> "range", st, et, desc]        text the time-range pattern      *)
(*                                        matches: two tokens h.f and the  *)
(*                                        description                      *)
(***************************************************************************)
EXTENDS Integers, Sequences, FiniteSets, TLC

\* ------------------------------------------------------------------ bounds
\* Number of document lines a run reads.
MaxLines == 6
\* page_size of get_project_tasks (500 in the source), scaled down so that a
\* remote task list of three records spans two pages.
PageSize == 2
\* Number of page requests one call of get_project_tasks is followed for; the
\* source's loop has no such limit.
MaxPages == 3

\* ------------------------------------------------------------- Python values
\* None where the code holds a date, a project name or a task name.
None == [t |-> "None"]
\* None where the code holds an id (dict.get() of a missing key).
NoneId == -1
\* Python truthiness of an id: None and 0 are falsy.
Truthy(id) == id # NoneId /\ id # 0

\* ------------------------------------------------------------------ strings
UpperChars == <<"A","B","C","D","E","F","G","H","I","J","K","L","M",
                "N","O","P","Q","R","S","T","U","V","W","X","Y","Z">>
LowerChars == <<"a","b","c","d","e","f","g","h","i","j","k","l","m",
                "n","o","p","q","r","s","t","u","v","w","x","y","z">>

UpperSet == {UpperChars[i] : i \in 1..26}
LowerTable == [c \in UpperSet |-> LowerChars[CHOOSE i \in 1..26 : UpperChars[i] = c]]
LowerChar(c) == IF c \in UpperSet THEN LowerTable[c] ELSE c

\* str.lower()
Lower(s) == [i \in 1..Len(s) |-> LowerChar(s[i])]

\* str.strip(): leading and trailing spaces removed
RECURSIVE LStrip(_)
LStrip(s) == IF s # <<>> /\ Head(s) = " " THEN LStrip(Tail(s)) ELSE s
RECURSIVE RStrip(_)
RStrip(s) == IF s # <<>> /\ s[Len(s)] = " " THEN RStrip(SubSeq(s, 1, Len(s) - 1)) ELSE s
Strip(s) == RStrip(LStrip(s))

\* s.startswith(p)
StartsWith(s, p) == Len(p) <= Len(s) /\ SubSeq(s, 1, Len(p)) = p

\* needle in hay (Python's substring test on str), scanning left to right
RECURSIVE Contains(_, _)
Contains(hay, needle) ==
    IF Len(needle) > Len(hay) THEN FALSE
    ELSE IF StartsWith(hay, needle) THEN TRUE
    ELSE Contains(Tail(hay), needle)

DigitChars == <<"0","1","2","3","4","5","6","7","8","9">>
DigitSet == {DigitChars[i] : i \in 1..10}
DigitTable == [c \in DigitSet |-> (CHOOSE i \in 1..10 : DigitChars[i] = c) - 1]
IsDigit(c) == c \in DigitSet
DigitVal(c) == DigitTable[c]
AllDigits(s) == \A i \in 1..Len(s) : IsDigit(s[i])

\* int(s) of a string of decimal digits
RECURSIVE IntOf(_)
IntOf(s) == IF s = <<>> THEN 0
            ELSE 10 * IntOf(SubSeq(s, 1, Len(s) - 1)) + DigitVal(s[Len(s)])

\* The stripped text of a line as a string (current_project and current_task
\* hold it): a time range is written "<st> - <et> <desc>".
TokStr(tok) == tok.h \o <<".">> \o tok.f
Str(txt) ==
    IF txt.t = "name" THEN txt.s
    ELSE TokStr(txt.st) \o <<" ", "-", " ">> \o TokStr(txt.et) \o <<" ">> \o txt.desc

\* ----------------------------------------------------------- time arithmetic
IsLeap(y) == (y % 4 = 0 /\ y % 100 # 0) \/ y % 400 = 0
DaysIn(y, m) ==
    IF m = 2 THEN (IF IsLeap(y) THEN 29 ELSE 28)
    ELSE IF m \in {4, 6, 9, 11} THEN 30 ELSE 31

\* datetime(year, month, day) accepts exactly the real calendar dates
ValidDate(y, m, d) ==
    /\ y \in 1..9999
    /\ m \in 1..12
    /\ d \in 1..DaysIn(y, m)

\* int(s) of a token without whitespace: an optional sign, then decimal
\* digits that single underscores may separate; anything else raises
\* ValueError.
Unsigned(s) == IF s # <<>> /\ s[1] \in {"+", "-"} THEN Tail(s) ELSE s
IsIntLiteral(s) ==
    LET b == Unsigned(s)
    IN  /\ b # <<>>
        /\ \A i \in 1..Len(b) : IsDigit(b[i]) \/ b[i] = "_"
        /\ IsDigit(b[1]) /\ IsDigit(b[Len(b)])
        /\ \A i \in 1..(Len(b) - 1) : ~(b[i] = "_" /\ b[i + 1] = "_")
PyInt(s) ==
    LET v == IntOf(SelectSeq(Unsigned(s), IsDigit))
    IN  IF s[1] = "-" THEN 0 - v ELSE v

\* parse_date with the two year digits of a ddmmyy token taken as the year
parse_date_without_century(date_str) ==
    LET n    == Len(date_str)
        day  == SubSeq(date_str, 1, 2)
        mon  == SubSeq(date_str, 3, 4)
        year == SubSeq(date_str, 5, n)
    IN  IF n \notin {6, 8} THEN [ok |-> FALSE]
        ELSE IF ~(IsIntLiteral(year) /\ IsIntLiteral(mon) /\ IsIntLiteral(day))
        THEN [ok |-> FALSE]
        ELSE IF ~ValidDate(PyInt(year), PyInt(mon), PyInt(day)) THEN [ok |-> FALSE]
        ELSE [ok |-> TRUE,
              date |-> [y |-> PyInt(year), m |-> PyInt(mon), d |-> PyInt(day)]]

\* parse_date: [ok |-> TRUE, date |-> [y, m, d]], or [ok |-> FALSE] when the
\* code raises ValueError (length, int() of a non-number, impossible date).
parse_date(date_str) ==
    LET n    == Len(date_str)
        day  == SubSeq(date_str, 1, 2)
        mon  == SubSeq(date_str, 3, 4)
        year == IF n = 6 THEN <<"2", "0">> \o SubSeq(date_str, 5, 6)
                         ELSE SubSeq(date_str, 5, n)
    IN  IF n \notin {6, 8} THEN [ok |-> FALSE]
        ELSE IF ~(IsIntLiteral(year) /\ IsIntLiteral(mon) /\ IsIntLiteral(day))
        THEN [ok |-> FALSE]
        ELSE IF ~ValidDate(PyInt(year), PyInt(mon), PyInt(day)) THEN [ok |-> FALSE]
        ELSE [ok |-> TRUE,
              date |-> [y |-> PyInt(year), m |-> PyInt(mon), d |-> PyInt(day)]]

\* parse_time_range: the groups of the pattern, or None when it does not match
parse_time_range(txt) ==
    IF txt.t = "range" THEN [st |-> txt.st, et |-> txt.et, desc |-> txt.desc]
    ELSE None

\* float_time_to_hm reading the fraction digits as minutes
float_time_to_hm_base60(tok) ==
    [h |-> IntOf(tok.h), m |-> IntOf(tok.f)]

\* float_time_to_hm: val = float("h.f"); hour = int(val) and
\* minute = round((val - int(val)) * 60).  The fraction is f / 10^len(f), so
\* the minute is 60 f / 10^len(f) rounded to nearest (it is never a tie).
float_time_to_hm(tok) ==
    LET scale == IF Len(tok.f) = 1 THEN 10 ELSE 100
    IN  [h |-> IntOf(tok.h), m |-> (60 * IntOf(tok.f) + scale \div 2) \div scale]

\* build_iso_datetime: datetime(y, m, d, h, mi) raises ValueError unless
\* 0 <= h <= 23 and 0 <= mi <= 59; the result is "%Y-%m-%d %H:%M:%S".
ValidTime(h, mi) == h \in 0..23 /\ mi \in 0..59
\* build_iso_datetime with day and month exchanged
build_iso_datetime_month_first(date_obj, h, mi) ==
    [y |-> date_obj.y, mo |-> date_obj.d, d |-> date_obj.m,
     h |-> h, mi |-> mi, s |-> 0]

build_iso_datetime(date_obj, h, mi) ==
    [y |-> date_obj.y, mo |-> date_obj.m, d |-> date_obj.d,
     h |-> h, mi |-> mi, s |-> 0]

\* seconds between two instants of the same calendar day, as
\* post_create_event computes "duration"
Duration(start_dt, end_dt) ==
    (end_dt.h * 3600 + end_dt.mi * 60 + end_dt.s)
    - (start_dt.h * 3600 + start_dt.mi * 60 + start_dt.s)

\* ------------------------------------------------------------ the documents
\* The strings the documents and the remote directory are built from.
sTimesheet    == <<"t","i","m","e","s","h","e","e","t">>
sTimesheetCap == <<"T","i","m","e","s","h","e","e","t">>
sCenturion    == <<"C","e","n","t","u","r","i","o","n">>
sCenturionUp  == <<"C","E","N","T","U","R","I","O","N">>
sCent         == <<"C","e","n","t">>
sOther        == <<"O","t","h","e","r">>
sDesign       == <<"D","e","s","i","g","n">>
sDesignReview == <<"D","e","s","i","g","n"," ","r","e","v","i","e","w">>
sRedesign     == <<"R","e","d","e","s","i","g","n">>
sMisc         == <<"M","i","s","c">>
sSoftwareDesign == <<"S","o","f","t","w","a","r","e"," ","d","e","s","i","g","n">>
sNotes        == <<"n","o","t","e","s">>
sReview       == <<"r","e","v","i","e","w">>
sHash         == <<"#">>
sDate         == <<"d","a","t","e">>

Name(s) == [t |-> "name", s |-> s]
Tok(h, f) == [h |-> h, f |-> f]
Range(st, et, desc) == [t |-> "range", st |-> st, et |-> et, desc |-> desc]
DateHeader(rest) == [t |-> "date", toks |-> <<sHash, sDate>> \o rest]
Blank == [t |-> "blank"]
Line(ind, txt) == [ind |-> ind, txt |-> txt]

\* date tokens: ddmmyy, ddmmyyyy, day 32, wrong length, not a number
d290125   == <<"2","9","0","1","2","5">>
d30012025 == <<"3","0","0","1","2","0","2","5">>
d320125   == <<"3","2","0","1","2","5">>
d2901     == <<"2","9","0","1">>
d29xx25   == <<"2","9","x","x","2","5">>

\* hour tokens
t9_00  == Tok(<<"9">>, <<"0","0">>)
t12_00 == Tok(<<"1","2">>, <<"0","0">>)
t13_5  == Tok(<<"1","3">>, <<"5">>)
t25_00 == Tok(<<"2","5">>, <<"0","0">>)

HeaderLines ==
    { Line(0, DateHeader(<<d290125>>)),        \* # date 290125
      Line(12, DateHeader(<<d30012025>>)),     \* # date 30012025, indented
      Line(0, DateHeader(<<d320125>>)),        \* # date 320125
      Line(0, DateHeader(<<d2901>>)),          \* # date 2901
      Line(0, DateHeader(<<d29xx25>>)),        \* # date 29xx25
      Line(0, DateHeader(<<>>)),               \* # date
      Line(0, DateHeader(<<d290125, d290125>>)) }  \* # date 290125 290125

MarkerLines ==
    { Line(4, Name(sTimesheet)), Line(8, Name(sTimesheetCap)) }

ProjectLines ==
    { Line(8, Name(sCenturion)), Line(8, Name(sCenturionUp)),
      Line(8, Name(sCent)), Line(11, Name(sOther)) }

TaskLines ==
    { Line(12, Name(sDesign)), Line(12, Name(sRedesign)), Line(15, Name(sMisc)) }

TimeLines ==
    { Line(16, Range(t9_00, t12_00, sSoftwareDesign)),  \* 9.00 - 12.00 Software design
      Line(20, Range(t12_00, t13_5, sReview)),           \* 12.00 - 13.5 review
      Line(16, Range(t12_00, t9_00, sNotes)),            \* 12.00 - 9.00 notes
      Line(16, Range(t25_00, t9_00, sNotes)),            \* 25.00 - 9.00 notes
      Line(16, Name(sNotes)) }                           \* notes

OtherLines ==
    { Line(8, Blank), Line(4, Name(sNotes)) }

Lines == HeaderLines \cup MarkerLines \cup ProjectLines \cup TaskLines
         \cup TimeLines \cup OtherLines

\* ------------------------------------------------------- the remote directory
\* Responses of GET /projects: an HTTP status and the "data" list.
ProjectResponses ==
    { [status |-> 500, data |-> << [name |-> sCenturion, id |-> 7] >>],
      [status |-> 200, data |-> << [name |-> sCenturion, id |-> 7] >>],
      [status |-> 200, data |-> << [name |-> <<" ">> \o sCenturion, id |-> 7],
                                   [name |-> sOther, id |-> 8],
                                   [name |-> <<>>, id |-> 9] >>] }

\* The remote's list of all tasks (of every project), in the order it pages them.
RemoteTaskLists ==
    { <<>>,
      << [id |-> 70, name |-> sDesignReview, project_id |-> 7],
         [id |-> 80, name |-> sDesign, project_id |-> 8],
         [id |-> 71, name |-> sDesign, project_id |-> 7] >>,
      << [id |-> 0, name |-> sSoftwareDesign, project_id |-> 7],
         [id |-> 72, name |-> sSoftwareDesign, project_id |-> 7] >> }

\* What POST /events/add can answer.
EventResults == {"created", "http_error", "api_error"}

\* A page request that fails gets a non-200 answer; NoFailure: none fails.
NoFailure == -1

\* ----------------------------------------------------------------- the state
VARIABLES
    pc,                   \* "start", "lines", "done", or "raised" (uncaught exception)
    remoteTasks,          \* the remote's task list during the run
    project_map,          \* {lower-cased project name: id}
    project_tasks_cache,  \* {project id: task records}
    task_cache,           \* module-level {(project_id, task_name): task_id}
    current_date,
    in_block,
    current_project,
    current_task,
    line,                 \* the line the loop read last
    nread,                \* number of lines read
    calls,                \* the remote calls made so far, in order
    \* one call of get_project_tasks, taken a page request at a time
    fpc,                  \* "idle", "loop", "after_loop", or "returned"
    req_project_id,       \* its project_id argument
    req_page,             \* its local `page`
    project_tasks,        \* its local `project_tasks`
    received,             \* the responses it got so far, in order
    \* one call of a parsing helper (parse_date, float_time_to_hm)
    hpc,                  \* "idle", "ready", "returned", or "raised"
    arg,                  \* the helper called and its argument
    ret                   \* what it returned

driver == <<pc, remoteTasks, project_map, project_tasks_cache, task_cache,
            current_date, in_block, current_project, current_task, line, nread, calls>>

fetch == <<fpc, req_project_id, req_page, project_tasks, received>>

helper == <<hpc, arg, ret>>

vars == <<driver, fetch, helper>>

parser == <<current_date, in_block, current_project, current_task>>

EmptyDict == [k \in {} |-> NoneId]

\* dict.get(key)
DictGet(d, key) == IF key \in DOMAIN d THEN d[key] ELSE NoneId

\* ------------------------------------------------------------ remote helpers
\* the dict comprehension of get_all_projects: a later record of the same
\* key replaces an earlier one; records without a name are left out
RECURSIVE ProjectDict(_)
ProjectDict(ps) ==
    IF ps = <<>> THEN EmptyDict
    ELSE LET p     == ps[Len(ps)]
             front == ProjectDict(SubSeq(ps, 1, Len(ps) - 1))
         IN  IF p.name # <<>> THEN (Strip(Lower(p.name)) :> p.id) @@ front
             ELSE front

\* get_all_projects reading the body whatever the status
get_all_projects_any_status(resp) ==
    ProjectDict(resp.data)

\* lines 108-117
get_all_projects(resp) ==
    IF resp.status # 200 THEN EmptyDict ELSE ProjectDict(resp.data)

\* the records of page number `page`
PageOf(all, page) ==
    SubSeq(all, page * PageSize + 1,
           IF (page + 1) * PageSize < Len(all) THEN (page + 1) * PageSize ELSE Len(all))

\* MatchingTasks keeping the records of every project
MatchingTasksUnfiltered(tasks, project_id) == tasks

\* the list comprehension of get_project_tasks
RECURSIVE MatchingTasks(_, _)
MatchingTasks(tasks, project_id) ==
    IF tasks = <<>> THEN <<>>
    ELSE (IF Head(tasks).project_id = project_id THEN <<Head(tasks)>> ELSE <<>>)
         \o MatchingTasks(Tail(tasks), project_id)

\* the page loop of get_project_tasks from page `page` on; the request of
\* page failAt is answered with a non-200 status
RECURSIVE FetchFrom(_, _, _, _)
FetchFrom(all, project_id, page, failAt) ==
    IF page = failAt THEN <<>>
    ELSE LET tasks == PageOf(all, page)
         IN  IF tasks = <<>> THEN <<>>
             ELSE MatchingTasks(tasks, project_id)
                  \o (IF Len(tasks) < PageSize THEN <<>>
                      ELSE FetchFrom(all, project_id, page + 1, failAt))

get_project_tasks(all, project_id, failAt) == FetchFrom(all, project_id, 0, failAt)

\* the numbers of the pages get_project_tasks can request
PageNumbers(all) == 0..(Len(all) \div PageSize)

\* ------------------------------------------------------------ driver helpers
\* HeaderDate with the token count tested by >= 3 instead of == 3
HeaderDateAtLeastThree(toks) ==
    IF Len(toks) >= 3
    THEN LET r == parse_date(toks[3])
         IN  IF r.ok THEN [raise |-> FALSE, date |-> r.date]
             ELSE [raise |-> TRUE, date |-> None]
    ELSE [raise |-> FALSE, date |-> None]

\* line 310: the date of a header line; raise: parse_date raised ValueError
HeaderDate(toks) ==
    IF Len(toks) = 3
    THEN LET r == parse_date(toks[3])
         IN  IF r.ok THEN [raise |-> FALSE, date |-> r.date]
             ELSE [raise |-> TRUE, date |-> None]
    ELSE [raise |-> FALSE, date |-> None]

\* IsBlockMarker without lower()
IsBlockMarkerCaseSensitive(txt) == txt.t = "name" /\ txt.s = sTimesheet

\* line 314
IsBlockMarker(txt) == txt.t = "name" /\ Lower(txt.s) = sTimesheet

\* line 319
InEntryContext(inb, d) == inb /\ d # None

\* IsTaskIndent with the upper threshold included
IsTaskIndentWide(indent) == 12 <= indent /\ indent <= 16

\* lines 323, 336, 341
IsProjectIndent(indent) == 8 <= indent /\ indent < 12
IsTaskIndent(indent) == 12 <= indent /\ indent < 16
IsTimeEntry(indent, proj, task) == indent >= 16 /\ proj # None /\ task # None

\* lines 328 and 351
ResolveProject(map, proj) == DictGet(map, Lower(Str(proj)))

\* ShouldFetch without the test of the cache
ShouldFetchUncached(proj_id, cache) == Truthy(proj_id)

\* line 329
ShouldFetch(proj_id, cache) == Truthy(proj_id) /\ proj_id \notin DOMAIN cache

\* lines 363-365
TaskMatches(task_name, cur, desc) ==
    \/ Contains(Lower(task_name), Lower(cur))
    \/ Contains(Lower(cur), Lower(task_name))
    \/ Contains(Lower(task_name), Lower(desc))

\* FindTask without the break: the last candidate that matches wins
RECURSIVE FindTaskLast(_, _, _)
FindTaskLast(tasks, cur, desc) ==
    IF tasks = <<>> THEN NoneId
    ELSE LET later == FindTaskLast(Tail(tasks), cur, desc)
         IN  IF later # NoneId THEN later
             ELSE IF TaskMatches(Head(tasks).name, cur, desc) THEN Head(tasks).id
             ELSE NoneId

\* FindTask passing over a matching candidate whose id is falsy
RECURSIVE FindTaskFirstValid(_, _, _)
FindTaskFirstValid(tasks, cur, desc) ==
    IF tasks = <<>> THEN NoneId
    ELSE IF TaskMatches(Head(tasks).name, cur, desc) /\ Truthy(Head(tasks).id)
    THEN Head(tasks).id
    ELSE FindTaskFirstValid(Tail(tasks), cur, desc)

\* lines 357-368: the id of the first candidate that matches, None without one
RECURSIVE FindTask(_, _, _)
FindTask(tasks, cur, desc) ==
    IF tasks = <<>> THEN NoneId
    ELSE IF TaskMatches(Head(tasks).name, cur, desc) THEN Head(tasks).id
    ELSE FindTask(Tail(tasks), cur, desc)

\* lines 356-368
MatchTaskId(cache, proj_id, cur, desc) ==
    IF proj_id \in DOMAIN cache THEN FindTask(cache[proj_id], cur, desc) ELSE NoneId

\* Every call in `calls` carries `at`, the number of the line that made it
\* (0: before the first line).
\* post_create_event: the request it posts
Event(start_dt, end_dt, task_id, desc, task, proj, result, at) ==
    [op |-> "createEvent", at |-> at,
     task_id |-> task_id, start |-> start_dt, end |-> end_dt,
     duration |-> Duration(start_dt, end_dt),
     notes |-> [desc |-> desc, task |-> task, project |-> proj],
     result |-> result]

\* post_create_task: the request it posts
CreateTask(task_name, project_id, at) ==
    [op |-> "createTask", at |-> at, name |-> task_name, project_id |-> project_id]

\* EntryCalls creating the task when none matched, the task cache not consulted
EntryCallsCreating(task_id, proj_id, desc, event) ==
    IF ~Truthy(task_id) THEN <<CreateTask(desc, proj_id, event.at)>> ELSE <<event>>

\* EntryCalls posting the event whether or not a task matched
EntryCallsAlways(task_id, proj_id, desc, event) == <<event>>

\* lines 370-376: the remote calls of an entry whose project resolved
EntryCalls(task_id, proj_id, desc, event) ==
    IF ~Truthy(task_id) THEN <<>> ELSE <<event>>

\* -------------------------------------------------------------------- actions
\* get_project_tasks has not been entered
FetchIdle ==
    /\ fpc = "idle"
    /\ req_project_id = NoneId
    /\ req_page = 0
    /\ project_tasks = <<>>
    /\ received = <<>>

\* no helper is called on its own
HelperIdle ==
    /\ hpc = "idle"
    /\ arg = None
    /\ ret = None

Init ==
    /\ pc = "start"
    /\ remoteTasks \in RemoteTaskLists
    /\ project_map = EmptyDict
    /\ project_tasks_cache = EmptyDict
    /\ task_cache = EmptyDict
    /\ current_date = None
    /\ in_block = FALSE
    /\ current_project = None
    /\ current_task = None
    /\ line = None
    /\ nread = 0
    /\ calls = <<>>
    /\ FetchIdle
    /\ HelperIdle

\* lines 292-301: the project directory is fetched, the parser state set up
Start ==
    /\ pc = "start"
    /\ \E resp \in ProjectResponses :
          /\ project_map' = get_all_projects(resp)
          /\ calls' = Append(calls, [op |-> "listProjects", at |-> 0,
                                     status |-> resp.status])
    /\ pc' = "lines"
    /\ UNCHANGED <<remoteTasks, project_tasks_cache, task_cache, parser, line, nread>>
    /\ UNCHANGED <<fetch, helper>>

\* the loop reads the next line of the file
Reads(l) ==
    /\ pc = "lines"
    /\ nread < MaxLines
    /\ nread' = nread + 1
    /\ line' = l

\* BlankLine leaving the block
BlankLineEndingBlock ==
    \E l \in Lines :
       /\ Reads(l)
       /\ UNCHANGED <<fetch, helper>>
       /\ l.txt.t = "blank"
       /\ in_block' = FALSE
       /\ UNCHANGED <<pc, remoteTasks, project_map, project_tasks_cache, task_cache,
                      current_date, current_project, current_task, calls>>

\* lines 306-307
BlankLine ==
    \E l \in Lines :
       /\ Reads(l)
       /\ UNCHANGED <<fetch, helper>>
       /\ l.txt.t = "blank"
       /\ UNCHANGED <<pc, remoteTasks, project_map, project_tasks_cache, task_cache,
                      parser, calls>>

\* DateHeaderLine keeping the project and task of the block before
DateHeaderLineKeepingContext ==
    \E l \in Lines :
       /\ Reads(l)
       /\ UNCHANGED <<fetch, helper>>
       /\ l.txt.t = "date"
       /\ LET r == HeaderDate(l.txt.toks)
          IN  IF r.raise
              THEN /\ pc' = "raised"
                   /\ UNCHANGED parser
              ELSE /\ current_date' = r.date
                   /\ in_block' = FALSE
                   /\ UNCHANGED <<pc, current_project, current_task>>
       /\ UNCHANGED <<remoteTasks, project_map, project_tasks_cache, task_cache, calls>>

\* lines 309-312
DateHeaderLine ==
    \E l \in Lines :
       /\ Reads(l)
       /\ UNCHANGED <<fetch, helper>>
       /\ l.txt.t = "date"
       /\ LET r == HeaderDate(l.txt.toks)
          IN  IF r.raise
              THEN /\ pc' = "raised"
                   /\ UNCHANGED parser
              ELSE /\ current_date' = r.date
                   /\ in_block' = FALSE
                   /\ current_project' = None
                   /\ current_task' = None
                   /\ UNCHANGED pc
       /\ UNCHANGED <<remoteTasks, project_map, project_tasks_cache, task_cache, calls>>

\* lines 314-317
BlockMarkerLine ==
    \E l \in Lines :
       /\ Reads(l)
       /\ UNCHANGED <<fetch, helper>>
       /\ l.txt.t \notin {"blank", "date"}
       /\ IsBlockMarker(l.txt)
       /\ in_block' = TRUE
       /\ current_project' = None
       /\ current_task' = None
       /\ UNCHANGED <<pc, remoteTasks, project_map, project_tasks_cache, task_cache,
                      current_date, calls>>

\* a line that reaches line 319
Content(l) == l.txt.t \notin {"blank", "date"} /\ ~IsBlockMarker(l.txt)

\* lines 323-333
ProjectLine ==
    \E l \in Lines :
       /\ Reads(l)
       /\ UNCHANGED <<fetch, helper>>
       /\ InEntryContext(in_block, current_date)
       /\ Content(l)
       /\ IsProjectIndent(l.ind)
       /\ current_project' = l.txt
       /\ current_task' = None
       /\ LET proj_id == ResolveProject(project_map, l.txt)
          IN  IF ShouldFetch(proj_id, project_tasks_cache)
              THEN \E failAt \in {NoFailure} \cup PageNumbers(remoteTasks) :
                      /\ project_tasks_cache' =
                            (proj_id :> get_project_tasks(remoteTasks, proj_id, failAt))
                            @@ project_tasks_cache
                      /\ calls' = Append(calls, [op |-> "getProjectTasks", at |-> nread + 1,
                                                 project_id |-> proj_id])
              ELSE UNCHANGED <<project_tasks_cache, calls>>
       /\ UNCHANGED <<pc, remoteTasks, project_map, task_cache, current_date, in_block>>

\* lines 336-338
TaskLine ==
    \E l \in Lines :
       /\ Reads(l)
       /\ UNCHANGED <<fetch, helper>>
       /\ InEntryContext(in_block, current_date)
       /\ Content(l)
       /\ ~IsProjectIndent(l.ind)
       /\ IsTaskIndent(l.ind)
       /\ current_task' = l.txt
       /\ UNCHANGED <<pc, remoteTasks, project_map, project_tasks_cache, task_cache,
                      current_date, in_block, current_project, calls>>

\* lines 341-376
TimeEntryLine ==
    \E l \in Lines :
       /\ Reads(l)
       /\ UNCHANGED <<fetch, helper>>
       /\ InEntryContext(in_block, current_date)
       /\ Content(l)
       /\ ~IsProjectIndent(l.ind)
       /\ ~IsTaskIndent(l.ind)
       /\ IsTimeEntry(l.ind, current_project, current_task)
       /\ LET r == parse_time_range(l.txt)
          IN  IF r = None
              THEN UNCHANGED <<pc, calls>>
              ELSE LET s == float_time_to_hm(r.st)
                       e == float_time_to_hm(r.et)
                   IN  IF ~ValidTime(s.h, s.m) \/ ~ValidTime(e.h, e.m)
                       THEN /\ pc' = "raised"
                            /\ UNCHANGED calls
                       ELSE LET start_dt == build_iso_datetime(current_date, s.h, s.m)
                                end_dt   == build_iso_datetime(current_date, e.h, e.m)
                                proj_id  == ResolveProject(project_map, current_project)
                            IN  IF ~Truthy(proj_id)
                                THEN UNCHANGED <<pc, calls>>
                                ELSE LET task_id == MatchTaskId(project_tasks_cache, proj_id,
                                                                Str(current_task), r.desc)
                                     IN  \E result \in EventResults :
                                            /\ calls' = calls \o
                                                  EntryCalls(task_id, proj_id, r.desc,
                                                     Event(start_dt, end_dt, task_id, r.desc,
                                                           Str(current_task),
                                                           Str(current_project), result,
                                                           nread + 1))
                                            /\ UNCHANGED pc
       /\ UNCHANGED <<remoteTasks, project_map, project_tasks_cache, task_cache, parser>>

\* a line that falls through every branch of the loop body
OtherLine ==
    \E l \in Lines :
       /\ Reads(l)
       /\ UNCHANGED <<fetch, helper>>
       /\ Content(l)
       /\ \/ ~InEntryContext(in_block, current_date)
          \/ /\ ~IsProjectIndent(l.ind)
             /\ ~IsTaskIndent(l.ind)
             /\ ~IsTimeEntry(l.ind, current_project, current_task)
       /\ UNCHANGED <<pc, remoteTasks, project_map, project_tasks_cache, task_cache,
                      parser, calls>>

\* the file is exhausted and process_timesheet_file returns
EndOfFile ==
    /\ pc = "lines"
    /\ pc' = "done"
    /\ UNCHANGED <<remoteTasks, project_map, project_tasks_cache, task_cache,
                   parser, line, nread, calls>>
    /\ UNCHANGED <<fetch, helper>>

Next ==
    \/ Start
    \/ BlankLine
    \/ DateHeaderLine
    \/ BlockMarkerLine
    \/ ProjectLine
    \/ TaskLine
    \/ TimeEntryLine
    \/ OtherLine
    \/ EndOfFile

Spec == Init /\ [][Next]_vars

\* ------------------------------------- get_project_tasks, a request at a time
\* the records a page of the remote's task listing can hold
PageTasks ==
    { [id |-> 70, name |-> sDesign, project_id |-> 7],
      [id |-> 80, name |-> sDesign, project_id |-> 8] }

\* what the remote can answer to one page request: a non-200 status, or a
\* page of at most page_size records
PageResponses ==
    { [status |-> 500, data |-> <<>>] }
    \cup { [status |-> 200, data |-> d] :
               d \in UNION { [1..n -> PageTasks] : n \in 0..PageSize } }

\* LoopContinues that gives up after the second page
LoopContinuesCapped(status, tasks, pg) ==
    /\ status = 200
    /\ tasks # <<>>
    /\ ~(Len(tasks) < PageSize)
    /\ pg < 1

\* LoopContinues that goes on after a short page
LoopContinuesOnShort(status, tasks, pg) ==
    /\ status = 200
    /\ tasks # <<>>

\* lines 466-487: none of the three breaks is taken and `page += 1` runs;
\* the page number pg plays no part
LoopContinues(status, tasks, pg) ==
    /\ status = 200
    /\ tasks # <<>>
    /\ ~(Len(tasks) < PageSize)

\* lines 477-480: what one response adds to project_tasks
Extension(status, tasks, pid) ==
    IF status # 200 \/ tasks = <<>> THEN <<>> ELSE MatchingTasks(tasks, pid)

\* the CLI has read the project list only
InitFetch ==
    /\ pc = "start"
    /\ remoteTasks = <<>>
    /\ project_map = EmptyDict
    /\ project_tasks_cache = EmptyDict
    /\ task_cache = EmptyDict
    /\ current_date = None
    /\ in_block = FALSE
    /\ current_project = None
    /\ current_task = None
    /\ line = None
    /\ nread = 0
    /\ calls = <<>>
    /\ FetchIdle
    /\ HelperIdle

\* main lines 552-557 and get_project_tasks lines 454-456
CallGetProjectTasks ==
    /\ fpc = "idle"
    /\ \E id \in {7, 8} : req_project_id' = id
    /\ req_page' = 0
    /\ project_tasks' = <<>>
    /\ fpc' = "loop"
    /\ UNCHANGED <<received, driver, helper>>

\* lines 458-487: one turn of the while loop
RequestPage ==
    /\ fpc = "loop"
    /\ req_page < MaxPages
    /\ \E r \in PageResponses :
          /\ received' = Append(received, [page |-> req_page, status |-> r.status,
                                           data |-> r.data])
          /\ project_tasks' = project_tasks
                                \o Extension(r.status, r.data, req_project_id)
          /\ IF LoopContinues(r.status, r.data, req_page)
             THEN req_page' = req_page + 1 /\ fpc' = "loop"
             ELSE req_page' = req_page /\ fpc' = "after_loop"
    /\ UNCHANGED <<req_project_id, driver, helper>>

\* lines 489-500
ReturnTasks ==
    /\ fpc = "after_loop"
    /\ fpc' = "returned"
    /\ UNCHANGED <<req_project_id, req_page, project_tasks, received, driver, helper>>

NextFetch ==
    \/ CallGetProjectTasks
    \/ RequestPage
    \/ ReturnTasks

SpecFetch == InitFetch /\ [][NextFetch]_vars

\* every request made with `requests.get` returns or raises, and the loop
\* body has no other wait
SpecFetchFair == SpecFetch /\ WF_vars(NextFetch)

\* ------------------------------------------- the parsing helpers on their own
\* every token the time-range pattern can capture: \d{1,2}\.\d{1,2}
DigitStrings(n) == [1..n -> DigitSet]
HourTokens ==
    { Tok(h, f) : h \in DigitStrings(1) \cup DigitStrings(2),
                  f \in DigitStrings(1) \cup DigitStrings(2) }

\* date tokens: a day part, a month part and a year part, among them days and
\* months that do not exist, leap days, years of two, three, four and five
\* characters, and parts that int() reads although they are not two digits
DayParts ==
    { <<"0","0">>, <<"0","1">>, <<"2","8">>, <<"2","9">>, <<"3","0">>,
      <<"3","1">>, <<"3","2">>, <<"+","1">>, <<"x","x">> }
MonthParts ==
    { <<"0","0">>, <<"0","1">>, <<"0","2">>, <<"0","4">>, <<"1","2">>, <<"1","3">> }
YearParts ==
    { <<"0","0">>, <<"2","4">>, <<"2","5">>, <<"9","9">>, <<"_","5">>,
      <<"0","2","5">>,
      <<"0","0","0","0">>, <<"1","9","0","0">>, <<"2","0","0","0">>,
      <<"2","0","2","4">>, <<"2","0","2","5">>, <<"9","9","9","9">>,
      <<"2","0","2","5","5">> }
DateTokens ==
    { dd \o mm \o yy : dd \in DayParts, mm \in MonthParts, yy \in YearParts }
    \cup { d2901, <<>> }

\* a helper is about to be called with an argument
InitHelpers ==
    /\ pc = "start"
    /\ remoteTasks = <<>>
    /\ project_map = EmptyDict
    /\ project_tasks_cache = EmptyDict
    /\ task_cache = EmptyDict
    /\ current_date = None
    /\ in_block = FALSE
    /\ current_project = None
    /\ current_task = None
    /\ line = None
    /\ nread = 0
    /\ calls = <<>>
    /\ FetchIdle
    /\ hpc = "ready"
    /\ ret = None
    /\ arg \in { [fn |-> "float_time_to_hm", time_str |-> t] : t \in HourTokens }
              \cup { [fn |-> "parse_date", date_str |-> s] : s \in DateTokens }

\* lines 90-92
CallFloatTimeToHm ==
    /\ hpc = "ready"
    /\ arg.fn = "float_time_to_hm"
    /\ ret' = float_time_to_hm(arg.time_str)
    /\ hpc' = "returned"
    /\ UNCHANGED <<arg, driver, fetch>>

\* lines 74-83
CallParseDate ==
    /\ hpc = "ready"
    /\ arg.fn = "parse_date"
    /\ LET r == parse_date(arg.date_str)
       IN  IF r.ok THEN ret' = r.date /\ hpc' = "returned"
                   ELSE ret' = ret /\ hpc' = "raised"
    /\ UNCHANGED <<arg, driver, fetch>>

NextHelpers ==
    \/ CallFloatTimeToHm
    \/ CallParseDate

SpecHelpers == InitHelpers /\ [][NextHelpers]_vars

\* ------------------------------------------------------ vocabulary of claims
\* a is a substring of b
IsSubstr(a, b) == \E k \in 0..(Len(b) - Len(a)) : SubSeq(b, k + 1, k + Len(a)) = a
\* a is a substring of b, letter case ignored
IsSubstrCI(a, b) == IsSubstr(Lower(a), Lower(b))

CallsOf(cs, op) == {i \in 1..Len(cs) : cs[i].op = op}
CreateTaskCalls(cs, project_id, name) ==
    {i \in CallsOf(cs, "createTask") : cs[i].project_id = project_id /\ cs[i].name = name}
FetchCalls(cs, project_id) ==
    {i \in CallsOf(cs, "getProjectTasks") : cs[i].project_id = project_id}

\* the name has a case-insensitive exact match in the project directory
Resolvable(proj) == proj # None /\ Lower(Str(proj)) \in DOMAIN project_map
ProjectIdOf(proj) == project_map[Lower(Str(proj))]

\* this step reads a line of the document: line' is the line
ReadStep == pc = "lines" /\ nread' = nread + 1

\* this step reads a line matching the time-range pattern at time-range
\* depth, inside a block with a valid date and a current project
RangeStep ==
    /\ ReadStep
    /\ in_block /\ current_date # None /\ current_project # None
    /\ line'.ind >= 16 /\ line'.txt.t = "range"

\* hours of the range line within the day
HoursOfDay(txt) == IntOf(txt.st.h) <= 23 /\ IntOf(txt.et.h) <= 23

\* the state after a RangeStep: the step leaves the parser state alone
AfterRange ==
    /\ pc \in {"lines", "raised"} /\ nread > 0
    /\ in_block /\ current_date # None /\ current_project # None
    /\ line.ind >= 16 /\ line.txt.t = "range"

\* the cached candidates of the current project
Candidates == IF Resolvable(current_project)
                 /\ ProjectIdOf(current_project) \in DOMAIN project_tasks_cache
              THEN project_tasks_cache[ProjectIdOf(current_project)]
              ELSE <<>>

\* the three-way substring clause of the task matching
Clause(task_name, task_text, desc) ==
    \/ IsSubstrCI(task_text, task_name)
    \/ IsSubstrCI(task_name, task_text)
    \/ IsSubstrCI(desc, task_name)

\* the candidates that satisfy the clause for the current task and desc
MatchSet(desc) ==
    {i \in 1..Len(Candidates) : Clause(Candidates[i].name, Str(current_task), desc)}

Min(S) == CHOOSE x \in S : \A y \in S : x <= y
Max(S) == CHOOSE x \in S : \A y \in S : y <= x

\* ------------------------------------------------------------------- claims

\* C1: in any run, the createTask calls made for one pair (remote project
\* id, task-description text) number at most one, however many time-range
\* lines reference the pair.
C1_AtMostOneCreateTaskPerPair ==
    \A i, j \in CallsOf(calls, "createTask") :
        (calls[i].project_id = calls[j].project_id /\ calls[i].name = calls[j].name)
            => i = j

\* two time-range lines of the same project and description were processed
C1_Witness ==
    /\ pc = "done"
    /\ \E i, j \in CallsOf(calls, "createEvent") :
          /\ i < j
          /\ calls[i].notes.project = calls[j].notes.project
          /\ calls[i].notes.desc = calls[j].notes.desc

\* C2: a time-range line under a resolvable project with no task line (the
\* two-level variant) causes a createEvent call, and the createTask calls for
\* (project id, description) number exactly one after it: N such lines give one
\* createTask and N createEvent calls.
C2_TwoLevelOneTaskNEvents ==
    [][ (RangeStep /\ current_task = None /\ Resolvable(current_project)
         /\ HoursOfDay(line'.txt))
        => /\ Cardinality(CallsOf(calls', "createEvent"))
                = Cardinality(CallsOf(calls, "createEvent")) + 1
           /\ Cardinality(CreateTaskCalls(calls', ProjectIdOf(current_project),
                                          line'.txt.desc)) = 1 ]_vars

\* C3: scenario A.  After `# date 290125`, `timesheet` and the project line
\* `Centurion` (resolving to 7, empty task cache, no task line), the line
\* `9.00 - 12.00 Software design` makes createTask("Software design", 7) and
\* then createEvent from 2025-01-29 09:00:00 to 2025-01-29 12:00:00.
C3_ScenarioA ==
    [][ ( /\ ReadStep
          /\ nread = 3
          /\ line = Line(8, Name(sCenturion))
          /\ current_date = [y |-> 2025, m |-> 1, d |-> 29]
          /\ in_block
          /\ current_project = Name(sCenturion)
          /\ current_task = None
          /\ DictGet(project_map, Lower(sCenturion)) = 7
          /\ task_cache = EmptyDict
          /\ line' = Line(16, Range(t9_00, t12_00, sSoftwareDesign)) )
        => /\ Len(calls') = Len(calls) + 2
           /\ calls'[Len(calls) + 1].op = "createTask"
           /\ calls'[Len(calls) + 1].name = sSoftwareDesign
           /\ calls'[Len(calls) + 1].project_id = 7
           /\ calls'[Len(calls) + 2].op = "createEvent"
           /\ calls'[Len(calls) + 2].start =
                 [y |-> 2025, mo |-> 1, d |-> 29, h |-> 9, mi |-> 0, s |-> 0]
           /\ calls'[Len(calls) + 2].end =
                 [y |-> 2025, mo |-> 1, d |-> 29, h |-> 12, mi |-> 0, s |-> 0] ]_vars

\* C4: no entry failure is fatal: the run never raises on a line that is not
\* a date header, whatever its hour tokens, and goes on to the next line.
C4_NoEntryLineRaises ==
    pc = "raised" => line.txt.t = "date"

\* C5: a date header of three tokens with a bad date token is a no-op for
\* that line: the run does not abort on it.
C5_BadDateTokenDoesNotAbort ==
    pc = "raised" => ~(line.txt.t = "date" /\ Len(line.txt.toks) = 3)

\* C6: a time-range line whose current project has no case-insensitive exact
\* match in the project directory makes no remote call and the run continues.
C6_UnresolvedProjectSkipsEntry ==
    [][ (RangeStep /\ current_task # None /\ ~Resolvable(current_project))
        => (calls' = calls /\ pc' = "lines") ]_vars

\* C7: the task of an entry is the first cached candidate, in list order,
\* that satisfies the three-way substring clause: the event is posted with
\* the id of that candidate, and a later candidate is never preferred.
C7_FirstMatchInListOrder ==
    [][ (RangeStep /\ current_task # None /\ Resolvable(current_project)
         /\ Truthy(ProjectIdOf(current_project)) /\ HoursOfDay(line'.txt))
        => LET M == MatchSet(line'.txt.desc)
           IN  IF M # {} /\ Truthy(Candidates[Min(M)].id)
               THEN /\ Len(calls') = Len(calls) + 1
                    /\ calls'[Len(calls')].op = "createEvent"
                    /\ calls'[Len(calls')].task_id = Candidates[Min(M)].id
               ELSE calls' = calls ]_vars

\* an event went to the first match although a later candidate of the
\* project has exactly the name of the task line
C7_Witness ==
    /\ AfterRange /\ current_task # None
    /\ calls # <<>>
    /\ calls[Len(calls)].op = "createEvent"
    /\ calls[Len(calls)].at = nread
    /\ \E i, j \in 1..Len(Candidates) :
          /\ i < j
          /\ Candidates[i].id = calls[Len(calls)].task_id
          /\ Candidates[i].name # Str(current_task)
          /\ Candidates[j].name = Str(current_task)

\* C8: the run never calls createTask, and a time-range line (with a task
\* line above it) for which no remote task satisfies the matching heuristic
\* makes no createEvent call.
C8_NeverCreatesTask ==
    [][ /\ CallsOf(calls', "createTask") = {}
        /\ (RangeStep /\ current_task # None /\ MatchSet(line'.txt.desc) = {})
              => CallsOf(calls', "createEvent") = CallsOf(calls, "createEvent") ]_vars

\* a time-range line of a resolved project was processed and no candidate
\* matched it
C8_Witness ==
    /\ AfterRange /\ current_task # None
    /\ pc = "lines"
    /\ Resolvable(current_project)
    /\ MatchSet(line.txt.desc) = {}
    /\ CallsOf(calls, "createTask") = {}

\* C9: the task list of a project id is fetched at most once per run, by a
\* project line that resolves to the id; the result is cached and never
\* replaced, also when it is empty.
C9_FetchOncePerProject ==
    [][ /\ \A c \in {calls'[i] : i \in CallsOf(calls', "getProjectTasks")} :
              Cardinality(FetchCalls(calls', c.project_id)) = 1
        /\ \A id \in DOMAIN project_tasks_cache :
              /\ id \in DOMAIN project_tasks_cache'
              /\ project_tasks_cache'[id] = project_tasks_cache[id]
        /\ CallsOf(calls', "getProjectTasks") # CallsOf(calls, "getProjectTasks")
              => /\ IsProjectIndent(line'.ind)
                 /\ Resolvable(line'.txt)
                 /\ ProjectIdOf(line'.txt) \notin DOMAIN project_tasks_cache
                 /\ ProjectIdOf(line'.txt) \in DOMAIN project_tasks_cache'
                 /\ calls'[Len(calls')].project_id = ProjectIdOf(line'.txt) ]_vars

\* a project line names a project whose one fetch, on an earlier line,
\* gave an empty list
C9_Witness ==
    /\ pc = "lines"
    /\ in_block /\ current_date # None
    /\ IsProjectIndent(line.ind) /\ line.txt.t = "name"
    /\ Resolvable(line.txt)
    /\ ProjectIdOf(line.txt) \in DOMAIN project_tasks_cache
    /\ project_tasks_cache[ProjectIdOf(line.txt)] = <<>>
    /\ \E i \in FetchCalls(calls, ProjectIdOf(line.txt)) : calls[i].at < nread

\* C10: a date header with a wrong token count leaves the date unknown, and
\* while the date is unknown no line makes a remote call; the date becomes
\* known again only by a header of three tokens.
C10_MalformedHeaderSuppresses ==
    [][ ReadStep =>
        /\ (line'.txt.t = "date" /\ Len(line'.txt.toks) # 3) => current_date' = None
        /\ current_date = None =>
              /\ calls' = calls
              /\ project_tasks_cache' = project_tasks_cache
              /\ current_date' # None
                    => (line'.txt.t = "date" /\ Len(line'.txt.toks) = 3) ]_vars

\* after a fetch, a header with a wrong token count was read, then a block
\* marker and a time-range line, which made no call
C10_Witness ==
    /\ pc = "lines"
    /\ current_date = None /\ in_block
    /\ line.ind >= 16 /\ line.txt.t = "range"
    /\ CallsOf(calls, "getProjectTasks") # {}
    /\ \A i \in 1..Len(calls) : calls[i].at < nread - 2

\* C11: a createEvent call is attempted for a line only if, at that line,
\* there is a valid current date and a current project and the line matches
\* the time-range pattern; and without a current task (the two-level variant)
\* such a line under a resolvable project still emits its entry.
C11_EmissionRequirements ==
    [][ ReadStep =>
        /\ CallsOf(calls', "createEvent") # CallsOf(calls, "createEvent")
              => /\ current_date # None
                 /\ current_project # None
                 /\ line'.txt.t = "range"
        /\ (RangeStep /\ current_task = None /\ Resolvable(current_project)
            /\ HoursOfDay(line'.txt))
              => CallsOf(calls', "createEvent") # CallsOf(calls, "createEvent") ]_vars

\* C12: every createEvent call has its end strictly after its start on the
\* same calendar day, so the posted duration is positive.
C12_EventsEndAfterStart ==
    \A i \in CallsOf(calls, "createEvent") :
        /\ calls[i].start.y = calls[i].end.y
        /\ calls[i].start.mo = calls[i].end.mo
        /\ calls[i].start.d = calls[i].end.d
        /\ calls[i].duration > 0

\* the responses of a call that carry a page
IsPage(r) == r.status = 200

\* the records of the pages received, in page order, that belong to project pid
RECURSIVE ConcatMatching(_, _)
ConcatMatching(rs, pid) ==
    IF rs = <<>> THEN <<>>
    ELSE (IF IsPage(Head(rs))
          THEN SelectSeq(Head(rs).data, LAMBDA t : t.project_id = pid)
          ELSE <<>>)
         \o ConcatMatching(Tail(rs), pid)

\* the last response of the call
LastResponse == received[Len(received)]

\* the call has left its request loop
Stopped == fpc \in {"after_loop", "returned"}

\* pages are requested in the order 0, 1, 2, ..., one after the other
PagesInOrder == \A i \in 1..Len(received) : received[i].page = i - 1

\* the list built is the concatenation, in page order, of the matching
\* records of the pages received
ResultIsConcatenation ==
    fpc # "idle" => project_tasks = ConcatMatching(received, req_project_id)

\* C13 as stated: pages are requested in order, the loop stops exactly when a
\* page is empty or holds fewer records than page_size, and the result is the
\* concatenation in page order of the matching records of the pages received.
C13_StopsExactlyOnShortPage ==
    /\ PagesInOrder
    /\ ResultIsConcatenation
    /\ received # <<>> =>
          (Stopped <=> (IsPage(LastResponse) /\ Len(LastResponse.data) < PageSize))

\* C13 amended: pages are requested in order 0, 1, 2, ...; the loop stops
\* exactly when a response is not HTTP 200 or its page is empty or holds
\* fewer records than page_size; every response before the last is a full
\* page; the result is the concatenation in page order of the matching
\* records of the pages received.
C13_PagesInOrderUntilShortOrFailed ==
    /\ PagesInOrder
    /\ ResultIsConcatenation
    /\ received = <<>> => ~Stopped
    /\ received # <<>> =>
          (Stopped <=> (~IsPage(LastResponse) \/ Len(LastResponse.data) < PageSize))
    /\ \A i \in 1..(Len(received) - 1) :
          IsPage(received[i]) /\ Len(received[i].data) = PageSize

\* a call that kept records of two full pages and was stopped by a failed
\* third request
C13_Witness ==
    /\ fpc = "returned"
    /\ Len(received) = 3
    /\ ~IsPage(LastResponse)
    /\ Len(project_tasks) >= 2
    /\ Len(project_tasks) < 2 * PageSize

\* C14: the loop ends only because a response is not a full page (or failed):
\* after a full page of any number the next page is requested, there being no
\* cap on the number of pages, so the call returns unless the remote keeps
\* answering with full pages.
C14_EndsOnlyWithoutFullPage ==
    /\ [][ (fpc = "loop" /\ received' # received) =>
              LET r == received'[Len(received')]
              IN  IF IsPage(r) /\ Len(r.data) >= PageSize
                  THEN fpc' = "loop" /\ req_page' = req_page + 1
                  ELSE fpc' = "after_loop" ]_vars
    /\ [][ fpc = "after_loop" => fpc' \in {"after_loop", "returned"} ]_vars
    /\ <>(fpc = "returned" \/ req_page = MaxPages)

\* the remote answered every request so far with a full page and the call is
\* still requesting
C14_Witness ==
    /\ fpc = "loop"
    /\ req_page = MaxPages
    /\ Len(received) = MaxPages
    /\ \A i \in 1..Len(received) : Len(received[i].data) = PageSize

\* the trimmed content of the line is the block marker, in any case
MarkerText(txt) ==
    txt.t \in {"name", "range"} /\ Lower(Strip(Str(txt))) = sTimesheet

\* the effect of a line of l.ind leading spaces that is classified by its
\* indentation alone
BandEffect(l) ==
    IF l.ind \in 8..11
    THEN current_project' = l.txt /\ current_task' = None
                                  /\ UNCHANGED <<current_date, in_block>>
    ELSE IF l.ind \in 12..15
    THEN current_task' = l.txt /\ UNCHANGED <<current_date, in_block, current_project>>
    ELSE UNCHANGED parser

\* C15 as stated: inside a block with a valid date every non-blank line is
\* classified by its leading spaces alone (8-11 project, 12-15 task, 16 or
\* more time range, fewer than 8 nothing).
C15_EveryLineClassifiedByIndent ==
    [][ (ReadStep /\ in_block /\ current_date # None /\ line'.txt.t # "blank")
        => BandEffect(line') ]_vars

\* C15 amended: inside a block with a valid date a non-blank line that is
\* neither a date header nor a block marker is classified by its leading
\* spaces alone: 8-11 sets the project and clears the task, 12-15 sets the
\* task only, 16 or more and fewer than 8 change no parser state; a date
\* header or a block marker acts as such at any indentation.
C15_ContentLineClassifiedByIndent ==
    [][ (ReadStep /\ in_block /\ current_date # None /\ line'.txt.t # "blank")
        => IF line'.txt.t = "date"
           THEN pc' = "raised" \/ (~in_block' /\ current_project' = None
                                              /\ current_task' = None)
           ELSE IF MarkerText(line'.txt)
           THEN in_block' /\ current_project' = None /\ current_task' = None
                          /\ current_date' = current_date
           ELSE BandEffect(line') ]_vars

\* a task line of 15 leading spaces under a project line of 11
C15_Witness ==
    /\ in_block /\ current_date # None
    /\ line = Line(15, Name(sMisc))
    /\ current_task = Name(sMisc)
    /\ current_project = Name(sOther)

\* the calls of kind op made in the step
NewCalls(op) == CallsOf(calls', op) \ CallsOf(calls, op)

\* C16: a date header that is read through returns the parser to awaiting
\* the block marker with no project and no task, and makes no call; from
\* there the block is entered only by a block-marker line, a project is set
\* only by a project line inside the block, which clears the task, a task only
\* by a task line inside the block, and a createEvent call needs the block, a
\* project and a task: so no createEvent follows a header before a block
\* marker, a project line and a task line. A header that raises ends the run
\* and no call follows it either.
C16_DateHeaderClearsContext ==
    /\ [][ (ReadStep /\ line'.txt.t = "date")
           => /\ calls' = calls
              /\ pc' = "raised"
                 \/ (~in_block' /\ current_project' = None /\ current_task' = None) ]_vars
    /\ [][ pc = "raised" => calls' = calls ]_vars
    /\ [][ (~in_block /\ in_block') => (ReadStep /\ MarkerText(line'.txt)) ]_vars
    /\ [][ (current_project' # current_project /\ current_project' # None)
           => /\ ReadStep /\ in_block /\ ~MarkerText(line'.txt)
              /\ line'.ind \in 8..11
              /\ current_task' = None ]_vars
    /\ [][ (current_task' # current_task /\ current_task' # None)
           => /\ ReadStep /\ in_block /\ ~MarkerText(line'.txt)
              /\ line'.ind \in 12..15 ]_vars
    /\ [][ NewCalls("createEvent") # {}
           => in_block /\ current_project # None /\ current_task # None ]_vars

\* a project was looked up inside a block, a date header followed, and the
\* time-range line read now made no call
C16_Witness ==
    /\ pc = "lines"
    /\ current_date # None /\ ~in_block
    /\ current_project = None /\ current_task = None
    /\ line.ind >= 16 /\ line.txt.t = "range"
    /\ CallsOf(calls, "createEvent") = {}
    /\ \E i \in CallsOf(calls, "getProjectTasks") : calls[i].at = nread - 3

\* C17: a line whose trimmed content is the block marker in any case, at any
\* indentation and in any state, enters the block, clears the project and
\* the task, keeps the date and makes no call; a createEvent call needs a
\* project and a task, so none follows a repeated marker before a new project
\* line and task line.
C17_BlockMarkerAnyCaseAnyIndent ==
    /\ [][ (ReadStep /\ MarkerText(line'.txt))
           => /\ in_block'
              /\ current_project' = None /\ current_task' = None
              /\ current_date' = current_date
              /\ calls' = calls /\ pc' = pc ]_vars
    /\ [][ NewCalls("createEvent") # {}
           => /\ current_project # None /\ current_task # None
              /\ ~MarkerText(line'.txt) ]_vars

\* right after an event, a capitalised marker at project indentation
C17_Witness ==
    /\ line = Line(8, Name(sTimesheetCap))
    /\ in_block /\ current_date # None
    /\ current_project = None /\ current_task = None
    /\ \E i \in CallsOf(calls, "createEvent") : calls[i].at = nread - 1

\* the calendar dates the date tokens of the documents stand for
DateOf(tok) ==
    IF tok = d290125 THEN [y |-> 2025, m |-> 1, d |-> 29]
    ELSE IF tok = d30012025 THEN [y |-> 2025, m |-> 1, d |-> 30]
    ELSE None

\* the instant is on calendar date dt with zero seconds
OnDate(instant, dt) ==
    /\ instant.y = dt.y /\ instant.mo = dt.m /\ instant.d = dt.d
    /\ instant.s = 0

\* C18: the current date is the date of the most recent header read (it
\* changes only at a date header, and a header of three tokens that is read
\* through sets it to the date its token stands for), and every createEvent
\* call has start and end on the current date with zero seconds.
C18_EventsOnMostRecentHeaderDate ==
    /\ [][ current_date' # current_date => (ReadStep /\ line'.txt.t = "date") ]_vars
    /\ [][ (ReadStep /\ line'.txt.t = "date" /\ Len(line'.txt.toks) = 3
            /\ pc' # "raised")
           => current_date' = DateOf(line'.txt.toks[3]) /\ current_date' # None ]_vars
    /\ [][ \A i \in NewCalls("createEvent") :
              /\ current_date # None
              /\ OnDate(calls'[i].start, current_date)
              /\ OnDate(calls'[i].end, current_date) ]_vars

\* an event of 29 January was posted and the date is now 30 January
C18_Witness ==
    /\ nread > 0
    /\ current_date = [y |-> 2025, m |-> 1, d |-> 30]
    /\ line.txt.t = "date"
    /\ \E i \in CallsOf(calls, "createEvent") :
          /\ OnDate(calls[i].start, [y |-> 2025, m |-> 1, d |-> 29])
          /\ OnDate(calls[i].end, [y |-> 2025, m |-> 1, d |-> 29])

\* C19: a blank line, in every parser state, leaves the date, the block flag,
\* the project, the task, the project directory and both caches unchanged,
\* makes no remote call and does not end the run.
C19_BlankLinesIgnored ==
    [][ (ReadStep /\ line'.txt.t = "blank")
        => /\ UNCHANGED parser
           /\ UNCHANGED <<project_map, project_tasks_cache, task_cache>>
           /\ calls' = calls
           /\ pc' = pc ]_vars

\* a blank line read inside a block, a project and a task being current
\* and the project's tasks fetched
C19_Witness ==
    /\ nread > 0
    /\ line.txt.t = "blank"
    /\ in_block /\ current_date # None
    /\ current_project # None /\ current_task # None
    /\ CallsOf(calls, "getProjectTasks") # {}

\* C20: listProjects is called exactly once, as the first call and before
\* any line is read; the mapping it gave is never modified afterwards; when
\* the call failed the mapping is empty and the run makes no other call.
C20_ProjectDirectorySnapshot ==
    /\ [](pc = "start" => (calls = <<>> /\ nread = 0))
    /\ [](pc # "start" =>
             /\ CallsOf(calls, "listProjects") = {1}
             /\ calls[1].at = 0
             /\ calls[1].status # 200 => (project_map = EmptyDict /\ Len(calls) = 1))
    /\ [][ pc # "start" => project_map' = project_map ]_vars

\* the directory call failed, and a time-range line under a project and a
\* task of a dated block was read without a call
C20_Witness ==
    /\ pc = "lines"
    /\ calls[1].status # 200
    /\ AfterRange /\ current_task # None
    /\ HoursOfDay(line.txt)
    /\ Len(calls) = 1

\* the integer nearest to 60 * 0.f, f being one or two fraction digits
NearestMinute(f) ==
    LET scale == IF Len(f) = 1 THEN 10 ELSE 100
        num   == 60 * IntOf(f)
    IN  CHOOSE m \in 0..60 : 2 * (scale * m - num) < scale /\ 2 * (num - scale * m) < scale

\* C21: for every token h.f of one or two hour digits and one or two fraction
\* digits float_time_to_hm returns hour h and minute round(0.f * 60), the
\* literal decimal reading (9.30 gives 9h 18m, 9.5 gives 9h 30m) and not the
\* fraction digits as minutes; the minute is in 0..59 and the call never
\* raises.
C21_LiteralDecimalMinutes ==
    /\ hpc = "raised" => arg.fn = "parse_date"
    /\ (hpc = "returned" /\ arg.fn = "float_time_to_hm") =>
          LET h == arg.time_str.h
              f == arg.time_str.f
          IN  /\ ret.h = IntOf(h)
              /\ ret.m = NearestMinute(f)
              /\ ret.m \in 0..59
              /\ IntOf(f) >= 2 => ret.m # IntOf(f)
              /\ (h = <<"9">> /\ f = <<"3", "0">>) => ret = [h |-> 9, m |-> 18]
              /\ (h = <<"9">> /\ f = <<"5">>) => ret = [h |-> 9, m |-> 30]

\* 9.30 was converted to 9h 18m
C21_Witness ==
    /\ hpc = "returned"
    /\ arg = [fn |-> "float_time_to_hm", time_str |-> Tok(<<"9">>, <<"3", "0">>)]
    /\ ret = [h |-> 9, m |-> 18]

\* day d of month m of year y exists in the calendar
MonthLengths == <<31, 28, 31, 30, 31, 30, 31, 31, 30, 31, 30, 31>>
LeapYear(y) == y % 400 = 0 \/ (y % 4 = 0 /\ y % 100 # 0)
RealDate(y, m, d) ==
    /\ y >= 1
    /\ m \in 1..12
    /\ d >= 1
    /\ d <= (IF m = 2 /\ LeapYear(y) THEN 29 ELSE MonthLengths[m])

\* the date a token of six or eight digits stands for, read by position
PositionalDate(s) ==
    [y |-> IF Len(s) = 6 THEN 2000 + IntOf(SubSeq(s, 5, 6)) ELSE IntOf(SubSeq(s, 5, 8)),
     m |-> IntOf(SubSeq(s, 3, 4)),
     d |-> IntOf(SubSeq(s, 1, 2))]

\* C22: parse_date of a token of six digits ddmmyy that is a real date
\* returns day dd, month mm, year 2000 + yy; of eight digits ddmmyyyy the
\* literal year; a token of any other length, and a token of six or eight
\* digits that is no real calendar date, raises instead of returning.
C22_ParseDateByPosition ==
    (hpc \in {"returned", "raised"} /\ arg.fn = "parse_date") =>
        LET s == arg.date_str
        IN  /\ Len(s) \notin {6, 8} => hpc = "raised"
            /\ (Len(s) \in {6, 8} /\ AllDigits(s)) =>
                  LET dt == PositionalDate(s)
                  IN  IF RealDate(dt.y, dt.m, dt.d)
                      THEN hpc = "returned" /\ ret = dt
                      ELSE hpc = "raised"

\* 290224 was parsed as the leap day of 2024
C22_Witness ==
    /\ hpc = "returned"
    /\ arg = [fn |-> "parse_date", date_str |-> <<"2","9","0","2","2","4">>]
    /\ ret = [y |-> 2024, m |-> 2, d |-> 29]

\* C23: every list in the task cache holds records of the remote task list
\* whose project_id is the key it is cached under, and the task id of every
\* createEvent call is the id of a record cached for the id the project of
\* its line resolves to: no remote task of another project has that id.
C23_EventTaskBelongsToProject ==
    /\ \A pid \in DOMAIN project_tasks_cache :
          \A k \in 1..Len(project_tasks_cache[pid]) :
             /\ project_tasks_cache[pid][k].project_id = pid
             /\ \E j \in 1..Len(remoteTasks) :
                   remoteTasks[j] = project_tasks_cache[pid][k]
    /\ \A i \in CallsOf(calls, "createEvent") :
          LET name == Lower(calls[i].notes.project)
          IN  /\ name \in DOMAIN project_map
              /\ project_map[name] \in DOMAIN project_tasks_cache
              /\ \E k \in 1..Len(project_tasks_cache[project_map[name]]) :
                    /\ project_tasks_cache[project_map[name]][k].id = calls[i].task_id
                    /\ project_tasks_cache[project_map[name]][k].project_id
                          = project_map[name]
              /\ \A j \in 1..Len(remoteTasks) :
                    remoteTasks[j].id = calls[i].task_id
                       => remoteTasks[j].project_id = project_map[name]

\* the document went from project 7 to project 8 and the entry under the
\* task `Design` went to task 80 of project 8, project 7 having a `Design` too
C23_Witness ==
    /\ FetchCalls(calls, 7) # {} /\ FetchCalls(calls, 8) # {}
    /\ Min(FetchCalls(calls, 7)) < Min(FetchCalls(calls, 8))
    /\ \E k \in 1..Len(project_tasks_cache[7]) : project_tasks_cache[7][k].name = sDesign
    /\ \E i \in CallsOf(calls, "createEvent") :
          /\ calls[i].task_id = 80
          /\ Lower(calls[i].notes.project) = Lower(sOther)

\* C24: when the first candidate, in list order, that satisfies the clause
\* has a falsy id, the line makes no call and the run goes on, also when a
\* later candidate satisfies the clause and has a valid id.
C24_FalsyFirstMatchSkips ==
    [][ (RangeStep /\ current_task # None /\ Resolvable(current_project)
         /\ Truthy(ProjectIdOf(current_project)) /\ HoursOfDay(line'.txt))
        => LET M == MatchSet(line'.txt.desc)
           IN  (M # {} /\ ~Truthy(Candidates[Min(M)].id))
                  => (calls' = calls /\ pc' = pc) ]_vars

\* a time-range line made no call: its first matching candidate has id 0 and
\* a later matching candidate has a valid id
C24_Witness ==
    /\ pc = "lines"
    /\ AfterRange /\ current_task # None
    /\ HoursOfDay(line.txt)
    /\ Resolvable(current_project)
    /\ Truthy(ProjectIdOf(current_project))
    /\ LET M == MatchSet(line.txt.desc)
       IN  /\ M # {}
           /\ ~Truthy(Candidates[Min(M)].id)
           /\ \E k \in M : k > Min(M) /\ Truthy(Candidates[k].id)
    /\ \A i \in 1..Len(calls) : calls[i].at < nread

====
